---- MODULE Spec2Model ----
(***************************************************************************)
(* State-machine model of the eye-protector application.                   *)
(*                                                                         *)
(* ReminderManager (src/reminder_manager.py): the work/rest scheduler      *)
(* driven by a one-second QTimer.  The methods of the class are modelled   *)
(* as operators from an object record to an object record, composed in     *)
(* the order the Python code calls them; one action per public operation   *)
(* commits the resulting record to the variables.                          *)
(*                                                                         *)
(* HotkeyManager (src/hotkey_manager.py): the caller's start_listening and *)
(* stop_listening, the listener threads running _run_listener, and the     *)
(* key events that pynput delivers to on_press and on_release.             *)
(*                                                                         *)
(* BrightnessController (src/brightness_controller.py): get_brightness and *)
(* set_brightness against a backlight whose reads and writes may fail.     *)
(*                                                                         *)
(* GammaController (src/gamma_controller.py): the gains of a colour        *)
(* temperature, the gamma ramp computed from them and its application to   *)
(* the display.                                                            *)
(*                                                                         *)
(* MainWindow (src/main_window.py): the reminder checkbox and the two      *)
(* duration spin boxes, wired to the ReminderManager.                      *)
(***************************************************************************)
EXTENDS Integers, Sequences, FiniteSets, TLC

\* ------------------------------------------------------------------------
\* Bounds of the model
\* ------------------------------------------------------------------------
MaxHours == 1       \* largest work_hours passed to set_durations
MaxMinutes == 1     \* largest rest_minutes passed to set_durations
MaxRests == 1       \* rests started before the model stops starting rests
MaxEnded == 2       \* rest_period_ended signals before the model stops ending rests
MaxKeyEvents == 5   \* key events followed by the matcher specification
MaxThreads == 2     \* listener threads created in one behaviour
MaxStopKeyEvents == 1   \* key events in the start/stop specification
TargetStride == 20  \* distance between the brightness levels that callers request
KelvinStride == 250 \* distance between the temperatures whose gains are calculated

\* ------------------------------------------------------------------------
\* Program constants
\* ------------------------------------------------------------------------
SecondsPerHour == 3600
SecondsPerMinute == 60
DefaultWorkHours == 1
DefaultRestMinutes == 5

STATE_IDLE == "idle"
STATE_WORKING == "working"
STATE_RESTING == "resting"

\* Arguments the callers may pass to set_durations.  The only test the code
\* makes on work_hours is "<= 0", so 0 stands for the non-positive hours;
\* rest_minutes is never tested, so it takes a negative, a zero and a
\* positive value.
Hours == {0, MaxHours}
Minutes == {-MaxMinutes, 0, MaxMinutes}

VARIABLES
    work_hours,           \* self.work_hours
    rest_minutes,         \* self.rest_minutes
    state,                \* self.state
    remaining_seconds,    \* self.remaining_seconds
    rest_periods_today,   \* self.rest_periods_today
    timer_active,         \* self.timer.isActive()
    status_updated,       \* strings emitted on status_updated by the last operation
    rest_signals,         \* rest_period_started / rest_period_ended emitted by the last operation
    notifications,        \* desktop notifications sent by the last operation
    op,                   \* the last operation and its arguments
    nStarted,             \* history: rest_period_started signals so far
    nEnded,               \* history: rest_period_ended signals so far
    nCut,                 \* history: rests left by an operation other than a tick
    runTicks,             \* history: ticks since the last start() with nothing else in between, -1 if none
    runStarted,           \* history: rest_period_started signals in that run
    runEnded              \* history: rest_period_ended signals in that run

VARIABLES
    hotkey_map,           \* the hotkey strings of self.hotkey_map
    listener_thread,      \* self._listener_thread: a thread id, 0 for None
    listener_ref,         \* self._listener: the listener of a thread id, 0 for None
    stop_event,           \* self._stop_event.is_set()
    th_pc,                \* position of each listener thread in _run_listener
    th_running,           \* .running of the pynput listener of each thread
    pressed_keys,         \* the local pressed_keys of each thread
    caller_pc,            \* position of the caller inside stop_listening
    hotkey_pressed,       \* hotkey_pressed emissions of the last key event, per hotkey string
    keylog,               \* history: key events delivered so far
    matchlog,             \* history: the emissions of each of those key events
    stop_requested,       \* history: the threads that stop_listening set the stop flag for
    last_join             \* history: how the last join of stop_listening returned

reminderVars ==
    <<work_hours, rest_minutes, state, remaining_seconds, rest_periods_today,
      timer_active, status_updated, rest_signals, notifications, op,
      nStarted, nEnded, nCut, runTicks, runStarted, runEnded>>

hotkeyVars ==
    <<hotkey_map, listener_thread, listener_ref, stop_event, th_pc, th_running,
      pressed_keys, caller_pc, hotkey_pressed, keylog, matchlog, stop_requested,
      last_join>>

VARIABLES
    supported,            \* self.supported
    hw_level,             \* the backlight level of the hardware
    br_op,                \* the last brightness operation, its arguments and the level before it
    br_calls,             \* the levels passed to WmiSetBrightness by the last operation
    br_set_ret,           \* what the last set_brightness returned
    br_get_ret,           \* what the last get_brightness returned
    br_reads              \* the WmiMonitorBrightness reads made by the last operation

brightnessVars ==
    <<supported, hw_level, br_op, br_calls, br_set_ret, br_get_ret, br_reads>>

VARIABLES
    gamma_supported,      \* GammaController.supported
    display_ramp,         \* the gamma ramp active in the display
    gm_op,                \* the last gamma operation and its arguments
    gm_gains,             \* the gains calculated by the last operation
    gm_sent,              \* the ramps passed to SetDeviceGammaRamp by the last operation
    gm_ret                \* what the last set_temperature or reset_gamma returned

gammaVars == <<gamma_supported, display_ramp, gm_op, gm_gains, gm_sent, gm_ret>>

VARIABLES
    reminder_enabled_checkbox,  \* self.reminder_enabled_checkbox.isChecked()
    work_time_spinbox,          \* self.work_time_spinbox.value()
    rest_time_spinbox,          \* self.rest_time_spinbox.value()
    win_op                      \* the last window event

windowVars ==
    <<reminder_enabled_checkbox, work_time_spinbox, rest_time_spinbox, win_op>>

vars == <<reminderVars, hotkeyVars, brightnessVars, gammaVars, windowVars>>

\* ------------------------------------------------------------------------
\* Emitted values
\* ------------------------------------------------------------------------
\* A status string is represented by its kind and the numbers formatted
\* into it (the format "{:02d}:{:02d}:{:02d}" is one-to-one on them).
StatusError == [kind |-> "error_invalid_work", h |-> 0, m |-> 0, s |-> 0]
StatusDisabled == [kind |-> "disabled", h |-> 0, m |-> 0, s |-> 0]
StatusStopped == [kind |-> "stopped", h |-> 0, m |-> 0, s |-> 0]

SigStarted(secs) == [sig |-> "rest_period_started", arg |-> secs]
SigEnded == [sig |-> "rest_period_ended", arg |-> 0]

\* The object as a record; the emission logs start empty for each operation.
Self ==
    [work_hours |-> work_hours, rest_minutes |-> rest_minutes, state |-> state,
     remaining_seconds |-> remaining_seconds,
     rest_periods_today |-> rest_periods_today, timer_active |-> timer_active,
     status_updated |-> <<>>, rest_signals |-> <<>>, notifications |-> <<>>]

\* ------------------------------------------------------------------------
\* Methods of ReminderManager
\* ------------------------------------------------------------------------
status_text(st, total_seconds) ==
    IF st = STATE_WORKING
    THEN [kind |-> "working", h |-> total_seconds \div 3600,
          m |-> (total_seconds % 3600) \div 60, s |-> total_seconds % 60]
    ELSE IF st = STATE_RESTING
    THEN [kind |-> "resting", h |-> 0,
          m |-> total_seconds \div 60, s |-> total_seconds % 60]
    ELSE StatusStopped

update_status_display(o) ==
    [o EXCEPT !.status_updated = Append(@, status_text(o.state, o.remaining_seconds))]

send_notification(o, minutes) ==
    [o EXCEPT !.notifications = Append(@, minutes)]

\* Mutant: the QTimer is not started.
start_timer_timer_not_started(o) ==
    IF o.work_hours <= 0
    THEN [o EXCEPT !.status_updated = Append(@, StatusError)]
    ELSE LET o1 == [o EXCEPT !.state = STATE_WORKING,
                             !.remaining_seconds = o.work_hours * SecondsPerHour]
         IN  update_status_display(o1)

start_timer(o) ==
    IF o.work_hours <= 0
    THEN [o EXCEPT !.status_updated = Append(@, StatusError)]
    ELSE LET o1 == [o EXCEPT !.state = STATE_WORKING,
                             !.remaining_seconds = o.work_hours * SecondsPerHour]
             o2 == update_status_display(o1)
         IN  [o2 EXCEPT !.timer_active = TRUE]

\* Mutant: the durations are stored but a running cycle is not restarted.
set_durations_no_restart(o, wh, rm) ==
    [o EXCEPT !.work_hours = wh, !.rest_minutes = rm]

set_durations(o, wh, rm) ==
    LET o1 == [o EXCEPT !.work_hours = wh, !.rest_minutes = rm]
    IN  IF o1.timer_active THEN start_timer(o1) ELSE o1

\* Mutant: the countdown is not zeroed when the timer stops.
stop_timer_keep_remaining(o) ==
    LET o1 == IF o.timer_active THEN [o EXCEPT !.timer_active = FALSE] ELSE o
        o2 == [o1 EXCEPT !.state = STATE_IDLE]
    IN  [o2 EXCEPT !.status_updated = Append(@, StatusDisabled)]

stop_timer(o) ==
    LET o1 == IF o.timer_active THEN [o EXCEPT !.timer_active = FALSE] ELSE o
        o2 == [o1 EXCEPT !.state = STATE_IDLE, !.remaining_seconds = 0]
    IN  [o2 EXCEPT !.status_updated = Append(@, StatusDisabled)]

\* Mutant: the signal carries the rest duration in minutes, not in seconds.
start_rest_period_minutes_payload(o) ==
    LET o1 == [o EXCEPT !.state = STATE_RESTING,
                        !.remaining_seconds = o.rest_minutes * SecondsPerMinute,
                        !.rest_periods_today = @ + 1]
        o2 == update_status_display(o1)
        o3 == [o2 EXCEPT !.rest_signals = Append(@, SigStarted(o2.rest_minutes))]
    IN  send_notification(o3, o3.rest_minutes)

\* Mutant: the rest counter is not incremented.
start_rest_period_no_count(o) ==
    LET o1 == [o EXCEPT !.state = STATE_RESTING,
                        !.remaining_seconds = o.rest_minutes * SecondsPerMinute]
        o2 == update_status_display(o1)
        o3 == [o2 EXCEPT !.rest_signals = Append(@, SigStarted(o2.remaining_seconds))]
    IN  send_notification(o3, o3.rest_minutes)

start_rest_period(o) ==
    LET o1 == [o EXCEPT !.state = STATE_RESTING,
                        !.remaining_seconds = o.rest_minutes * SecondsPerMinute,
                        !.rest_periods_today = @ + 1]
        o2 == update_status_display(o1)
        o3 == [o2 EXCEPT !.rest_signals = Append(@, SigStarted(o2.remaining_seconds))]
    IN  send_notification(o3, o3.rest_minutes)

\* Mutant: the rest counter is incremented again when the rest ends.
end_rest_period_count(o) ==
    LET o1 == [o EXCEPT !.rest_signals = Append(@, SigEnded),
                        !.rest_periods_today = @ + 1]
    IN  start_timer(o1)

end_rest_period(o) ==
    LET o1 == [o EXCEPT !.rest_signals = Append(@, SigEnded)]
    IN  start_timer(o1)

\* Mutant: the phase switches in the tick that brings the countdown to 0.
tick_eager(o) ==
    IF o.remaining_seconds > 1
    THEN update_status_display([o EXCEPT !.remaining_seconds = @ - 1])
    ELSE IF o.state = STATE_WORKING THEN start_rest_period(o)
         ELSE IF o.state = STATE_RESTING THEN end_rest_period(o)
         ELSE o

\* Mutant: the status is emitted before the countdown is decremented.
tick_status_before_decrement(o) ==
    IF o.remaining_seconds > 0
    THEN [update_status_display(o) EXCEPT !.remaining_seconds = @ - 1]
    ELSE IF o.state = STATE_WORKING THEN start_rest_period(o)
         ELSE IF o.state = STATE_RESTING THEN end_rest_period(o)
         ELSE o

\* Mutant: nothing happens when the countdown is at 0.
tick_stays_at_zero(o) ==
    IF o.remaining_seconds > 0
    THEN update_status_display([o EXCEPT !.remaining_seconds = @ - 1])
    ELSE o

tick(o) ==
    IF o.remaining_seconds > 0
    THEN update_status_display([o EXCEPT !.remaining_seconds = @ - 1])
    ELSE IF o.state = STATE_WORKING THEN start_rest_period(o)
         ELSE IF o.state = STATE_RESTING THEN end_rest_period(o)
         ELSE o

get_rest_periods_today == rest_periods_today

\* ------------------------------------------------------------------------
\* History bookkeeping
\* ------------------------------------------------------------------------
RECURSIVE CountSig(_, _)
CountSig(sigs, name) ==
    IF sigs = <<>> THEN 0
    ELSE (IF Head(sigs).sig = name THEN 1 ELSE 0) + CountSig(Tail(sigs), name)

WorkSeconds == work_hours * SecondsPerHour
RestSeconds == rest_minutes * SecondsPerMinute

\* Length of the run that the history variables follow after a start().
RunHorizon == WorkSeconds + RestSeconds + 2

\* Writes the object record back to the variables and updates the history.
Commit(o, call) ==
    /\ work_hours' = o.work_hours
    /\ rest_minutes' = o.rest_minutes
    /\ state' = o.state
    /\ remaining_seconds' = o.remaining_seconds
    /\ rest_periods_today' = o.rest_periods_today
    /\ timer_active' = o.timer_active
    /\ status_updated' = o.status_updated
    /\ rest_signals' = o.rest_signals
    /\ notifications' = o.notifications
    /\ op' = call
    /\ UNCHANGED <<hotkeyVars, brightnessVars, gammaVars>>
    /\ nStarted' = nStarted + CountSig(o.rest_signals, "rest_period_started")
    /\ nEnded' = nEnded + CountSig(o.rest_signals, "rest_period_ended")
    /\ nCut' = nCut + (IF state = STATE_RESTING /\ call.name # "tick"
                          /\ o.state # STATE_RESTING
                       THEN 1 ELSE 0)
    /\ IF call.name = "start" /\ o.work_hours > 0
       THEN runTicks' = 0 /\ runStarted' = 0 /\ runEnded' = 0
       ELSE IF call.name = "tick" /\ runTicks >= 0 /\ runTicks < RunHorizon
       THEN /\ runTicks' = runTicks + 1
            /\ runStarted' = runStarted + CountSig(o.rest_signals, "rest_period_started")
            /\ runEnded' = runEnded + CountSig(o.rest_signals, "rest_period_ended")
       ELSE runTicks' = -1 /\ runStarted' = 0 /\ runEnded' = 0

\* A call: the operation, its arguments and the state it was made in.
Call(name, wh, rm) == [name |-> name, wh |-> wh, rm |-> rm, from |-> state]

\* ------------------------------------------------------------------------
\* HotkeyManager: keys and hotkey strings
\* ------------------------------------------------------------------------
\* pynput key objects: the members of keyboard.Key and the KeyCode of a
\* character.
SpecialKey(name) == [kind |-> "Key", name |-> name]
CharKey(c) == [kind |-> "KeyCode", name |-> c]

\* The members of keyboard.Key that the model knows, and the names that
\* only match the 'cmd' prefix test.
KeyNames == {"ctrl", "alt", "cmd"}
CmdAliases == {"cmdx"}

\* The keys whose events the keyboard delivers.
Keyboard == {SpecialKey("ctrl"), SpecialKey("alt"), CharKey("1")}

\* A part of a hotkey string after lower(), split('+') and strip():
\* "<name>" (form "special"), a single character (form "char"), or anything
\* else (form "other").
Part(form, text) == [form |-> form, text |-> text]

AllHotkeys == {"<ctrl>+<alt>+1", "<ctrl>+1", "<foo>+ab"}

HotkeyParts(hotkey_string) ==
    CASE hotkey_string = "<ctrl>+<alt>+1" ->
            <<Part("special", "ctrl"), Part("special", "alt"), Part("char", "1")>>
      [] hotkey_string = "<ctrl>+1" ->
            <<Part("special", "ctrl"), Part("char", "1")>>
      [] hotkey_string = "<foo>+ab" ->
            <<Part("special", "foo"), Part("other", "ab")>>

\* The keys one part adds to the set (none when it is skipped with a warning).
parse_part(part) ==
    IF part.form = "special"
    THEN IF part.text \in KeyNames THEN {SpecialKey(part.text)}
         ELSE IF part.text \in CmdAliases THEN {SpecialKey("cmd")}
         ELSE {}
    ELSE IF part.form = "char" THEN {CharKey(part.text)}
    ELSE {}

parse_hotkey(hotkey_string) ==
    LET parts == HotkeyParts(hotkey_string)
    IN  UNION {parse_part(parts[i]) : i \in 1 .. Len(parts)}

\* hotkeys_to_check of _run_listener (hotkey_map does not change after
\* construction).
hotkeys_to_check == [hk \in hotkey_map |-> parse_hotkey(hk)]

NoEmission == [hk \in AllHotkeys |-> 0]

\* Mutant: only the first satisfied hotkey fires (single-winner arbitration).
on_press_single_winner(pressed, key) ==
    LET now == pressed \cup {key}
        hit == {hk \in hotkey_map : hotkeys_to_check[hk] \subseteq now}
        winner == CHOOSE hk \in hit : TRUE
    IN  [pressed_keys |-> now,
         emitted |-> [hk \in AllHotkeys |->
                        IF hit # {} /\ hk = winner THEN 1 ELSE 0],
         continue |-> ~stop_event]

\* Mutant: the hotkeys are checked before the key is added to pressed_keys.
on_press_check_before_add(pressed, key) ==
    [pressed_keys |-> pressed \cup {key},
     emitted |-> [hk \in AllHotkeys |->
                    IF hk \in hotkey_map /\ hotkeys_to_check[hk] \subseteq pressed
                    THEN 1 ELSE 0],
     continue |-> ~stop_event]

\* on_press: the new pressed_keys, the number of hotkey_pressed emissions per
\* hotkey string, and whether the callback asks the listener to go on.
on_press(pressed, key) ==
    LET now == pressed \cup {key}
    IN  [pressed_keys |-> now,
         emitted |-> [hk \in AllHotkeys |->
                        IF hk \in hotkey_map /\ hotkeys_to_check[hk] \subseteq now
                        THEN 1 ELSE 0],
         continue |-> ~stop_event]

on_release(pressed, key) ==
    [pressed_keys |-> IF key \in pressed THEN pressed \ {key} ELSE pressed,
     emitted |-> NoEmission,
     continue |-> ~stop_event]

\* ------------------------------------------------------------------------
\* HotkeyManager: threads
\* ------------------------------------------------------------------------
Threads == 1 .. MaxThreads

is_alive(t) == th_pc[t] \notin {"unborn", "done"}

RECURSIVE SumEmitted(_, _, _)
SumEmitted(ts, results, hk) ==
    IF ts = {} THEN 0
    ELSE LET t == CHOOSE x \in ts : TRUE
         IN  results[t].emitted[hk] + SumEmitted(ts \ {t}, results, hk)

InitHotkey ==
    /\ hotkey_map \in SUBSET AllHotkeys
    /\ listener_thread = 0
    /\ listener_ref = 0
    /\ stop_event = FALSE
    /\ th_pc = [t \in Threads |-> "unborn"]
    /\ th_running = [t \in Threads |-> FALSE]
    /\ pressed_keys = [t \in Threads |-> {}]
    /\ caller_pc = "idle"
    /\ hotkey_pressed = NoEmission
    /\ keylog = <<>>
    /\ matchlog = <<>>
    /\ stop_requested = {}
    /\ last_join = "none"

\* start_listening, when it passes both early returns.
StartListening ==
    /\ caller_pc = "idle"
    /\ ~(listener_thread # 0 /\ is_alive(listener_thread))
    /\ hotkey_map # {}
    /\ \E t \in Threads :
          /\ th_pc[t] = "unborn"
          /\ \A u \in Threads : u < t => th_pc[u] # "unborn"
          /\ stop_event' = FALSE
          /\ listener_thread' = t
          /\ th_pc' = [th_pc EXCEPT ![t] = "parse"]
    /\ UNCHANGED <<hotkey_map, listener_ref, th_running, pressed_keys, caller_pc,
                   hotkey_pressed, keylog, matchlog, stop_requested, last_join>>
    /\ UNCHANGED <<reminderVars, brightnessVars, gammaVars, windowVars>>

\* stop_listening up to self._stop_event.set().
StopSetEvent ==
    /\ caller_pc = "idle"
    /\ listener_thread # 0
    /\ is_alive(listener_thread)
    /\ stop_event' = TRUE
    /\ caller_pc' = "stop_listener"
    /\ stop_requested' = stop_requested \cup {listener_thread}
    /\ UNCHANGED <<hotkey_map, listener_thread, listener_ref, th_pc, th_running,
                   pressed_keys, hotkey_pressed, keylog, matchlog, last_join>>
    /\ UNCHANGED <<reminderVars, brightnessVars, gammaVars, windowVars>>

\* keyboard.Listener.stop(self._listener) inside try/except: skipped when
\* self._listener is None; otherwise it stops the listener or raises, and
\* the exception is swallowed.
StopListenerCall ==
    /\ caller_pc = "stop_listener"
    /\ caller_pc' = "join"
    /\ \/ listener_ref # 0 /\ th_running' = [th_running EXCEPT ![listener_ref] = FALSE]
       \/ UNCHANGED th_running
    /\ UNCHANGED <<hotkey_map, listener_thread, listener_ref, stop_event, th_pc,
                   pressed_keys, hotkey_pressed, keylog, matchlog, stop_requested,
                   last_join>>
    /\ UNCHANGED <<reminderVars, brightnessVars, gammaVars, windowVars>>

\* join(timeout=1.0) returns because the thread ended or the timeout
\* elapsed; then both references are cleared.
StopJoinClear ==
    /\ caller_pc = "join"
    /\ last_join' = IF is_alive(listener_thread) THEN "timeout" ELSE "joined"
    /\ listener_thread' = 0
    /\ listener_ref' = 0
    /\ caller_pc' = "idle"
    /\ UNCHANGED <<hotkey_map, stop_event, th_pc, th_running, pressed_keys,
                   hotkey_pressed, keylog, matchlog, stop_requested>>
    /\ UNCHANGED <<reminderVars, brightnessVars, gammaVars, windowVars>>

\* _run_listener: pressed_keys = set() and hotkeys_to_check.
ThParse(t) ==
    /\ th_pc[t] = "parse"
    /\ th_pc' = [th_pc EXCEPT ![t] = "enter"]
    /\ pressed_keys' = [pressed_keys EXCEPT ![t] = {}]
    /\ UNCHANGED <<hotkey_map, listener_thread, listener_ref, stop_event, th_running,
                   caller_pc, hotkey_pressed, keylog, matchlog, stop_requested,
                   last_join>>
    /\ UNCHANGED <<reminderVars, brightnessVars, gammaVars, windowVars>>

\* with keyboard.Listener(...) as self._listener: the listener starts, or
\* creating it raises and the thread goes to its finally clause.
ThEnter(t) ==
    /\ th_pc[t] = "enter"
    /\ \/ /\ th_pc' = [th_pc EXCEPT ![t] = "loop"]
          /\ listener_ref' = t
          /\ th_running' = [th_running EXCEPT ![t] = TRUE]
       \/ /\ th_pc' = [th_pc EXCEPT ![t] = "finally"]
          /\ UNCHANGED <<listener_ref, th_running>>
    /\ UNCHANGED <<hotkey_map, listener_thread, stop_event, pressed_keys, caller_pc,
                   hotkey_pressed, keylog, matchlog, stop_requested, last_join>>
    /\ UNCHANGED <<reminderVars, brightnessVars, gammaVars, windowVars>>

\* while self._listener.running and not self._stop_event.is_set(): the
\* thread leaves the loop when the condition is false or when reading
\* .running of None raises; otherwise it sleeps and polls again.
ThLeaveLoop(t) ==
    /\ th_pc[t] = "loop"
    /\ \/ listener_ref = 0
       \/ listener_ref # 0 /\ ~th_running[listener_ref]
       \/ stop_event
    /\ th_pc' = [th_pc EXCEPT ![t] = "exit"]
    /\ UNCHANGED <<hotkey_map, listener_thread, listener_ref, stop_event, th_running,
                   pressed_keys, caller_pc, hotkey_pressed, keylog, matchlog,
                   stop_requested, last_join>>
    /\ UNCHANGED <<reminderVars, brightnessVars, gammaVars, windowVars>>

\* Leaving the with block stops the thread's own listener.
ThExit(t) ==
    /\ th_pc[t] = "exit"
    /\ th_pc' = [th_pc EXCEPT ![t] = "finally"]
    /\ th_running' = [th_running EXCEPT ![t] = FALSE]
    /\ UNCHANGED <<hotkey_map, listener_thread, listener_ref, stop_event, pressed_keys,
                   caller_pc, hotkey_pressed, keylog, matchlog, stop_requested,
                   last_join>>
    /\ UNCHANGED <<reminderVars, brightnessVars, gammaVars, windowVars>>

\* finally: self._listener = None; the thread ends.
ThFinally(t) ==
    /\ th_pc[t] = "finally"
    /\ th_pc' = [th_pc EXCEPT ![t] = "done"]
    /\ listener_ref' = 0
    /\ UNCHANGED <<hotkey_map, listener_thread, stop_event, th_running, pressed_keys,
                   caller_pc, hotkey_pressed, keylog, matchlog, stop_requested,
                   last_join>>
    /\ UNCHANGED <<reminderVars, brightnessVars, gammaVars, windowVars>>

ThreadStep(t) == ThParse(t) \/ ThEnter(t) \/ ThLeaveLoop(t) \/ ThExit(t) \/ ThFinally(t)

\* A key event is delivered to the callback of every running listener; a
\* callback that returns False stops its listener.
Deliver(results, ev, key, limit) ==
    LET ts == {t \in Threads : th_running[t]}
    IN  /\ Len(keylog) < limit
        /\ ts # {}
        /\ pressed_keys' = [t \in Threads |->
                              IF t \in ts THEN results[t].pressed_keys
                              ELSE pressed_keys[t]]
        /\ hotkey_pressed' = [hk \in AllHotkeys |-> SumEmitted(ts, results, hk)]
        /\ th_running' = [t \in Threads |->
                            IF t \in ts THEN results[t].continue ELSE th_running[t]]
        /\ keylog' = Append(keylog, [ev |-> ev, key |-> key])
        /\ matchlog' = Append(matchlog, hotkey_pressed')
        /\ UNCHANGED <<hotkey_map, listener_thread, listener_ref, stop_event, th_pc,
                       caller_pc, stop_requested, last_join>>
        /\ UNCHANGED <<reminderVars, brightnessVars, gammaVars, windowVars>>

KeyDown(key, limit) ==
    Deliver([t \in Threads |-> on_press(pressed_keys[t], key)], "down", key, limit)

KeyUp(key, limit) ==
    Deliver([t \in Threads |-> on_release(pressed_keys[t], key)], "up", key, limit)

\* ------------------------------------------------------------------------
\* BrightnessController
\* ------------------------------------------------------------------------
MinLevel == 0
MaxLevel == 100
Steps == 10
Unavailable == -1

\* The levels the hardware can report, and the levels callers ask for (also
\* below 0 and above 100).
HwLevels == MinLevel .. MaxLevel
TargetLevels ==
    {-TargetStride, MaxLevel + TargetStride}
        \cup {x \in MinLevel .. MaxLevel : x % TargetStride = 0} \cup {MaxLevel}

\* Mutant: values below the minimum are not raised to it.
clamp_no_lower(value, min_val, max_val) ==
    IF value > max_val THEN max_val ELSE value

clamp(value, min_val, max_val) ==
    LET low == IF value < max_val THEN value ELSE max_val
    IN  IF min_val > low THEN min_val ELSE low

\* Python int() of a quotient: truncation toward zero.
IntTrunc(num, den) ==
    IF num >= 0 THEN num \div den ELSE -((-num) \div den)

\* Mutant: the intermediate level is rounded to the nearest integer.
step_level_rounded(current_level, level, i) ==
    (2 * (current_level * Steps + i * (level - current_level)) + Steps) \div (2 * Steps)

\* int(current_level + i * level_step) with level_step = (level -
\* current_level) / steps.  For all levels in 0..100 the floating-point
\* value truncates to the same integer as the exact quotient.
step_level(current_level, level, i) ==
    IntTrunc(current_level * Steps + i * (level - current_level), Steps)

\* Mutant: the final apply of the exact level is missing.
transition_plan_no_final(current_level, level) ==
    [i \in 1 .. Steps |-> step_level(current_level, level, i)]

\* The levels of a smooth transition in the order they are applied.
transition_plan(current_level, level) ==
    Append([i \in 1 .. Steps |-> step_level(current_level, level, i)], level)

\* get_brightness: the level of the first monitor, or -1 when unsupported
\* or when the read fails.
get_brightness(hw, read_ok) ==
    IF ~supported THEN Unavailable
    ELSE IF read_ok THEN hw ELSE Unavailable

\* The WmiMonitorBrightness reads of one get_brightness call: none when
\* unsupported.  set_brightness calls get_brightness once, after its own
\* test of the flag.
hardware_reads == IF supported THEN 1 ELSE 0

\* Mutant: a failed apply is ignored and the remaining levels are applied.
set_brightness_continue_after_failure(hw, level, smooth_transition, read_ok, fail_at) ==
    IF ~supported THEN [calls |-> <<>>, hw |-> hw, ret |-> FALSE]
    ELSE LET lvl == clamp(level, MinLevel, MaxLevel)
             current_level == get_brightness(hw, read_ok)
             smooth == IF current_level = Unavailable THEN FALSE ELSE smooth_transition
             plan == IF smooth /\ current_level # lvl
                     THEN transition_plan(current_level, lvl)
                     ELSE <<lvl>>
         IN  [calls |-> plan, hw |-> plan[Len(plan)], ret |-> fail_at = 0]

\* set_brightness.  fail_at is the number of the WmiSetBrightness call that
\* raises (0: none does); a call that raises leaves the backlight as it was.
set_brightness(hw, level, smooth_transition, read_ok, fail_at) ==
    IF ~supported THEN [calls |-> <<>>, hw |-> hw, ret |-> FALSE]
    ELSE LET lvl == clamp(level, MinLevel, MaxLevel)
             current_level == get_brightness(hw, read_ok)
             smooth == IF current_level = Unavailable THEN FALSE ELSE smooth_transition
             plan == IF smooth /\ current_level # lvl
                     THEN transition_plan(current_level, lvl)
                     ELSE <<lvl>>
         IN  IF fail_at = 0
             THEN [calls |-> plan, hw |-> plan[Len(plan)], ret |-> TRUE]
             ELSE [calls |-> SubSeq(plan, 1, fail_at),
                   hw |-> IF fail_at = 1 THEN hw ELSE plan[fail_at - 1],
                   ret |-> FALSE]

\* The number of WmiSetBrightness calls set_brightness makes when none fails.
CallsPlanned(hw, level, smooth_transition, read_ok) ==
    Len(set_brightness(hw, level, smooth_transition, read_ok, 0).calls)

BrCall(name, level, smooth_transition, read_ok, fail_at) ==
    [name |-> name, level |-> level, smooth |-> smooth_transition,
     read_ok |-> read_ok, fail_at |-> fail_at, before |-> hw_level]

InitBrightness ==
    /\ supported \in BOOLEAN
    /\ hw_level \in HwLevels
    /\ br_op = [name |-> "init", level |-> 0, smooth |-> FALSE, read_ok |-> FALSE,
                fail_at |-> 0, before |-> hw_level]
    /\ br_calls = <<>>
    /\ br_set_ret = "none"
    /\ br_get_ret = Unavailable
    /\ br_reads = 0

GetBrightness ==
    \E read_ok \in BOOLEAN :
        /\ br_get_ret' = get_brightness(hw_level, read_ok)
        /\ br_op' = BrCall("get", 0, FALSE, read_ok, 0)
        /\ br_calls' = <<>>
        /\ br_set_ret' = "none"
        /\ br_reads' = hardware_reads
        /\ UNCHANGED <<supported, hw_level>>
        /\ UNCHANGED <<reminderVars, hotkeyVars, gammaVars, windowVars>>

SetBrightness ==
    \E level \in TargetLevels, smooth_transition \in BOOLEAN, read_ok \in BOOLEAN,
       fail_at \in 0 .. Steps + 1 :
        /\ fail_at <= CallsPlanned(hw_level, level, smooth_transition, read_ok)
        /\ LET r == set_brightness(hw_level, level, smooth_transition, read_ok, fail_at)
           IN  /\ hw_level' = r.hw
               /\ br_calls' = r.calls
               /\ br_set_ret' = IF r.ret THEN "True" ELSE "False"
        /\ br_op' = BrCall("set", level, smooth_transition, read_ok, fail_at)
        /\ br_get_ret' = Unavailable
        /\ br_reads' = hardware_reads
        /\ UNCHANGED supported
        /\ UNCHANGED <<reminderVars, hotkeyVars, gammaVars, windowVars>>

\* ------------------------------------------------------------------------
\* GammaController
\* ------------------------------------------------------------------------
MinKelvin == 1000
NeutralKelvin == 6500
MaxKelvin == 10000
MaxIndex == 255
WordMax == 65535

\* Gains are kept as integers in units of 1/GainUnit, the least unit in
\* which every gain of an integer temperature is a whole number: GainUnit is
\* the gain 1.0.
GainUnit == 385000
Tenths(n) == n * (GainUnit \div 10)

\* Fixed point with FracBits binary places, in two limbs of LimbBits places.
LimbBits == 14
Limb == 2 ^ LimbBits
FracOne == Limb * Limb

\* The temperatures passed to set_temperature, below, inside and above the
\* range, and those whose gains are calculated.
Kelvins == {500, 999, 1000, 2750, 4500, 6250, 6500, 6750, 8250, 10000, 10001, 20000}
GainKelvins ==
    {k \in 0 .. MaxKelvin + 2000 : k % KelvinStride = 0}
        \cup {-KelvinStride, MinKelvin, NeutralKelvin, NeutralKelvin + 1, MaxKelvin}

\* Mutant: the colder branch lowers blue instead of red.
calculate_color_gain_cold_blue(kelvin_in) ==
    LET kelvin == clamp(kelvin_in, MinKelvin, MaxKelvin)
    IN  IF kelvin <= NeutralKelvin
        THEN [r |-> GainUnit,
              g |-> clamp(Tenths(8) + (Tenths(2) * (kelvin - MinKelvin))
                                          \div (NeutralKelvin - MinKelvin),
                          Tenths(8), GainUnit),
              b |-> clamp(Tenths(6) + (Tenths(4) * (kelvin - MinKelvin))
                                          \div (NeutralKelvin - MinKelvin),
                          Tenths(6), GainUnit)]
        ELSE [r |-> GainUnit,
              g |-> clamp(GainUnit - (Tenths(1) * (kelvin - NeutralKelvin))
                                         \div (MaxKelvin - NeutralKelvin),
                          Tenths(9), GainUnit),
              b |-> clamp(GainUnit - (Tenths(2) * (kelvin - NeutralKelvin))
                                         \div (MaxKelvin - NeutralKelvin),
                          Tenths(8), GainUnit)]

\* _calculate_color_gain.  The divisions are exact in units of 1/GainUnit;
\* the floating-point gains of the code are these values to within 2^-53.
calculate_color_gain(kelvin_in) ==
    LET kelvin == clamp(kelvin_in, MinKelvin, MaxKelvin)
    IN  IF kelvin <= NeutralKelvin
        THEN [r |-> GainUnit,
              g |-> clamp(Tenths(8) + (Tenths(2) * (kelvin - MinKelvin))
                                          \div (NeutralKelvin - MinKelvin),
                          Tenths(8), GainUnit),
              b |-> clamp(Tenths(6) + (Tenths(4) * (kelvin - MinKelvin))
                                          \div (NeutralKelvin - MinKelvin),
                          Tenths(6), GainUnit)]
        ELSE [r |-> clamp(GainUnit - (Tenths(2) * (kelvin - NeutralKelvin))
                                         \div (MaxKelvin - NeutralKelvin),
                          Tenths(8), GainUnit),
              g |-> clamp(GainUnit - (Tenths(1) * (kelvin - NeutralKelvin))
                                         \div (MaxKelvin - NeutralKelvin),
                          Tenths(9), GainUnit),
              b |-> GainUnit]

\* gain ** (1.0 / gamma) with gamma = 2.2, to the nearest multiple of
\* 1/FracOne.  The power has no closed form in integers, so it is tabulated
\* for the gains that occur.
PowInvGamma(gain) ==
    CASE gain = 385000 -> 268435456
      [] gain = 382250 -> 267562208
      [] gain = 381500 -> 267323455
      [] gain = 379500 -> 266685527
      [] gain = 378000 -> 266205876
      [] gain = 365750 -> 262249244
      [] gain = 357000 -> 259378629
      [] gain = 346500 -> 255882756
      [] gain = 332500 -> 251130457
      [] gain = 329000 -> 249925408
      [] gain = 308000 -> 242543630
      [] gain = 307986 -> 242538618
      [] gain = 301000 -> 240022299
      [] gain = 280000 -> 232260318
      [] gain = 231000 -> 212813678
      [] gain = 230972 -> 212801952
      [] gain = 217000 -> 206850992

\* Mutant: 1.0 is added before the truncation instead of 0.5.
ramp_value_add_one(i, gain) ==
    LET G == PowInvGamma(gain)
        scaled == i * (WordMax \div MaxIndex)
        hi == scaled * (G \div Limb)
        lo == scaled * (G % Limb) + FracOne
    IN  (hi + lo \div Limb) \div Limb

\* One entry of a channel: int(clamp(pow(pow(i / 255.0, gamma) * gain,
\* 1.0 / gamma), 0.0, 1.0) * 65535 + 0.5).  The two powers compose to
\* (i / 255) * gain ** (1 / gamma), so the entry is the product of
\* i * 65535 / 255 and the fixed-point power, plus one half, truncated; the
\* product is taken limb by limb to stay within 32 bits.
ramp_value(i, gain) ==
    LET G == PowInvGamma(gain)
        scaled == i * (WordMax \div MaxIndex)
        hi == scaled * (G \div Limb)
        lo == scaled * (G % Limb) + FracOne \div 2
    IN  clamp((hi + lo \div Limb) \div Limb, 0, WordMax)

\* The RAMP structure filled by set_temperature.
compute_ramp(gains) ==
    [red   |-> [i \in 0 .. MaxIndex |-> ramp_value(i, gains.r)],
     green |-> [i \in 0 .. MaxIndex |-> ramp_value(i, gains.g)],
     blue  |-> [i \in 0 .. MaxIndex |-> ramp_value(i, gains.b)]]

\* Mutant: the index is normalised by 256.
linear_value_by_256(i) ==
    (2 * i * WordMax + (MaxIndex + 1)) \div (2 * (MaxIndex + 1))

\* int((i / 255.0) * 65535 + 0.5)
linear_value(i) ==
    (2 * i * WordMax + MaxIndex) \div (2 * MaxIndex)

\* The RAMP structure filled by reset_gamma.
linear_ramp ==
    [red   |-> [i \in 0 .. MaxIndex |-> linear_value(i)],
     green |-> [i \in 0 .. MaxIndex |-> linear_value(i)],
     blue  |-> [i \in 0 .. MaxIndex |-> linear_value(i)]]

\* The calibration of the display before this program sends a ramp.
SystemRamp == [red |-> <<>>, green |-> <<>>, blue |-> <<>>]
NoGains == [r |-> 0, g |-> 0, b |-> 0]

\* Mutant: set_temperature does not test the supported flag.
set_temperature_unchecked(display, kelvin, apply_ok) ==
    LET gains == calculate_color_gain(kelvin)
        ramp == compute_ramp(gains)
    IN  [gains |-> gains, sent |-> <<ramp>>,
         display |-> IF apply_ok THEN ramp ELSE display, ret |-> apply_ok]

\* set_temperature.  apply_ok is what SetDeviceGammaRamp returns; a call
\* that fails leaves the display as it was.
set_temperature(display, kelvin, apply_ok) ==
    IF ~gamma_supported
    THEN [gains |-> NoGains, sent |-> <<>>, display |-> display, ret |-> FALSE]
    ELSE LET gains == calculate_color_gain(kelvin)
             ramp == compute_ramp(gains)
         IN  [gains |-> gains, sent |-> <<ramp>>,
              display |-> IF apply_ok THEN ramp ELSE display, ret |-> apply_ok]

\* reset_gamma
reset_gamma(display, apply_ok) ==
    IF ~gamma_supported
    THEN [gains |-> NoGains, sent |-> <<>>, display |-> display, ret |-> FALSE]
    ELSE [gains |-> NoGains, sent |-> <<linear_ramp>>,
          display |-> IF apply_ok THEN linear_ramp ELSE display, ret |-> apply_ok]

GmCall(name, kelvin, apply_ok) ==
    [name |-> name, kelvin |-> kelvin, apply_ok |-> apply_ok]

GmCommit(r, call) ==
    /\ display_ramp' = r.display
    /\ gm_gains' = r.gains
    /\ gm_sent' = r.sent
    /\ gm_ret' = IF r.ret THEN "True" ELSE "False"
    /\ gm_op' = call
    /\ UNCHANGED gamma_supported
    /\ UNCHANGED <<reminderVars, hotkeyVars, windowVars>>

InitGamma ==
    /\ gamma_supported \in BOOLEAN
    /\ display_ramp = SystemRamp
    /\ gm_op = GmCall("init", 0, FALSE)
    /\ gm_gains = NoGains
    /\ gm_sent = <<>>
    /\ gm_ret = "none"

CalculateColorGain ==
    \E kelvin \in GainKelvins :
        /\ gm_gains' = calculate_color_gain(kelvin)
        /\ gm_op' = GmCall("gain", kelvin, FALSE)
        /\ gm_sent' = <<>>
        /\ gm_ret' = "none"
        /\ UNCHANGED <<gamma_supported, display_ramp>>
        /\ UNCHANGED <<reminderVars, hotkeyVars, brightnessVars, windowVars>>

SetTemperature ==
    \E kelvin \in Kelvins, apply_ok \in BOOLEAN :
        /\ GmCommit(set_temperature(display_ramp, kelvin, apply_ok),
                    GmCall("set_temperature", kelvin, apply_ok))
        /\ UNCHANGED brightnessVars

ResetGamma ==
    \E apply_ok \in BOOLEAN :
        /\ GmCommit(reset_gamma(display_ramp, apply_ok),
                    GmCall("reset_gamma", 0, apply_ok))
        /\ UNCHANGED brightnessVars

\* ------------------------------------------------------------------------
\* MainWindow: the reminder controls
\* ------------------------------------------------------------------------
\* The values the two spin boxes take (their ranges start at 1).
WindowHours == 1 .. MaxHours
WindowMinutes == 1 .. MaxMinutes + 1

\* update_reminder_times with the values of the spin boxes and the state of
\* the checkbox.
update_reminder_times(o, wh, rm, checked) ==
    LET o1 == set_durations(o, wh, rm)
    IN  IF checked THEN start_timer(o1) ELSE o1

\* toggle_reminder
toggle_reminder(o, checked, wh, rm) ==
    IF checked THEN update_reminder_times(o, wh, rm, TRUE) ELSE stop_timer(o)

InitWindowFixed ==
    /\ reminder_enabled_checkbox = FALSE
    /\ work_time_spinbox = DefaultWorkHours
    /\ rest_time_spinbox = DefaultRestMinutes
    /\ win_op = "init"

\* MainWindow.__init__: the settings are loaded, the durations are handed to
\* the new ReminderManager, and the checkbox and the spin boxes are set to
\* the loaded values before their signals are connected.
InitWindow ==
    /\ reminder_enabled_checkbox \in BOOLEAN
    /\ work_time_spinbox \in WindowHours
    /\ rest_time_spinbox \in WindowMinutes
    /\ win_op = "init"
    /\ work_hours = work_time_spinbox
    /\ rest_minutes = rest_time_spinbox
    /\ state = STATE_IDLE
    /\ remaining_seconds = 0
    /\ rest_periods_today = 0
    /\ timer_active = FALSE
    /\ status_updated = <<>>
    /\ rest_signals = <<>>
    /\ notifications = <<>>
    /\ op = [name |-> "set_durations", wh |-> work_hours, rm |-> rest_minutes,
             from |-> STATE_IDLE]
    /\ nStarted = 0
    /\ nEnded = 0
    /\ nCut = 0
    /\ runTicks = -1
    /\ runStarted = 0
    /\ runEnded = 0

\* The user clicks the checkbox: toggled(checked) calls toggle_reminder.
ToggleReminder ==
    LET checked == ~reminder_enabled_checkbox
    IN  /\ reminder_enabled_checkbox' = checked
        /\ Commit(toggle_reminder(Self, checked, work_time_spinbox, rest_time_spinbox),
                  [name |-> "toggle_reminder", wh |-> work_time_spinbox,
                   rm |-> rest_time_spinbox, from |-> state])
        /\ win_op' = "toggle_reminder"
        /\ UNCHANGED <<work_time_spinbox, rest_time_spinbox>>

\* The user changes one of the spin boxes, which are enabled while the
\* checkbox is checked: valueChanged calls update_reminder_times.
SpinBoxChanged ==
    /\ reminder_enabled_checkbox
    /\ \E wh \in WindowHours, rm \in WindowMinutes :
           /\ (wh # work_time_spinbox) # (rm # rest_time_spinbox)
           /\ work_time_spinbox' = wh
           /\ rest_time_spinbox' = rm
           /\ Commit(update_reminder_times(Self, wh, rm, reminder_enabled_checkbox),
                     [name |-> "update_reminder_times", wh |-> wh, rm |-> rm,
                      from |-> state])
    /\ win_op' = "update_reminder_times"
    /\ UNCHANGED reminder_enabled_checkbox

\* ------------------------------------------------------------------------
\* Initial state and actions
\* ------------------------------------------------------------------------
InitReminder ==
    /\ work_hours = DefaultWorkHours
    /\ rest_minutes = DefaultRestMinutes
    /\ state = STATE_IDLE
    /\ remaining_seconds = 0
    /\ rest_periods_today = 0
    /\ timer_active = FALSE
    /\ status_updated = <<>>
    /\ rest_signals = <<>>
    /\ notifications = <<>>
    /\ op = [name |-> "init", wh |-> 0, rm |-> 0, from |-> STATE_IDLE]
    /\ nStarted = 0
    /\ nEnded = 0
    /\ nCut = 0
    /\ runTicks = -1
    /\ runStarted = 0
    /\ runEnded = 0

\* One backlight state stands for the hardware in the specifications of the
\* other components, which never touch it.
InitBrightnessFixed ==
    /\ supported = TRUE
    /\ hw_level = MaxLevel
    /\ br_op = [name |-> "init", level |-> 0, smooth |-> FALSE, read_ok |-> FALSE,
                fail_at |-> 0, before |-> hw_level]
    /\ br_calls = <<>>
    /\ br_set_ret = "none"
    /\ br_get_ret = Unavailable
    /\ br_reads = 0

\* The display as the specifications of the other components see it.
InitGammaFixed ==
    /\ InitGamma
    /\ gamma_supported = TRUE

\* A manager without hotkeys stands for the hotkeys in the specifications of
\* the other components.
InitHotkeyFixed ==
    /\ InitHotkey
    /\ hotkey_map = {}

Init ==
    InitReminder /\ InitHotkey /\ InitBrightnessFixed /\ InitGammaFixed /\ InitWindowFixed

\* The scheduler alone.
InitScheduler ==
    InitReminder /\ InitHotkeyFixed /\ InitBrightnessFixed /\ InitGammaFixed
        /\ InitWindowFixed

SetDurations ==
    \E wh \in Hours, rm \in Minutes :
        /\ Commit(set_durations(Self, wh, rm), Call("set_durations", wh, rm))
        /\ UNCHANGED windowVars

StartTimer ==
    /\ Commit(start_timer(Self), Call("start", 0, 0))
    /\ UNCHANGED windowVars

StopTimer ==
    /\ Commit(stop_timer(Self), Call("stop", 0, 0))
    /\ UNCHANGED windowVars

\* The QTimer calls tick once a second while it is active.
Tick ==
    /\ timer_active
    /\ LET o == tick(Self)
       IN  /\ nStarted + CountSig(o.rest_signals, "rest_period_started") <= MaxRests
           /\ nEnded + CountSig(o.rest_signals, "rest_period_ended") <= MaxEnded
           /\ Commit(o, Call("tick", 0, 0))
    /\ UNCHANGED windowVars

Next == SetDurations \/ StartTimer \/ StopTimer \/ Tick

Spec == InitScheduler /\ [][Next]_vars

\* One work/rest cycle after the other: the durations are set and the timer
\* is started while the scheduler is Idle, and from then on only the QTimer
\* acts, which fires every second while it is active.
CycleSetDurations ==
    /\ state = STATE_IDLE
    /\ \E wh \in Hours, rm \in Minutes :
           /\ wh > 0
           /\ rm >= 0
           /\ Commit(set_durations(Self, wh, rm), Call("set_durations", wh, rm))
    /\ UNCHANGED windowVars

CycleStart ==
    /\ state = STATE_IDLE
    /\ StartTimer

NextCycle == CycleSetDurations \/ CycleStart \/ Tick

SpecCycle == InitScheduler /\ [][NextCycle]_vars

SpecCycleFair == SpecCycle /\ WF_vars(Tick)

\* The window: the user's clicks and the ticks of the QTimer.
InitMainWindow ==
    InitWindow /\ InitHotkeyFixed /\ InitBrightnessFixed /\ InitGammaFixed

NextWindow == ToggleReminder \/ SpinBoxChanged \/ Tick

SpecWindow == InitMainWindow /\ [][NextWindow]_vars

\* The matcher: one listener is started and receives key events.
MatcherKeyDown == \E key \in Keyboard : KeyDown(key, MaxKeyEvents)
MatcherKeyUp == \E key \in Keyboard : KeyUp(key, MaxKeyEvents)
MatcherThread == \E t \in Threads : ThParse(t) \/ ThEnter(t) \/ ThFinally(t)

NextMatcher == StartListening \/ MatcherThread \/ MatcherKeyDown \/ MatcherKeyUp

SpecMatcher == Init /\ [][NextMatcher]_vars

\* The caller's start_listening and stop_listening interleaved with the
\* listener threads and a few key events.
ListenerKeyDown == \E key \in Keyboard : KeyDown(key, MaxStopKeyEvents)
ListenerKeyUp == \E key \in Keyboard : KeyUp(key, MaxStopKeyEvents)
ListenerThread == \E t \in Threads : ThreadStep(t)

NextListener ==
    \/ StartListening
    \/ StopSetEvent
    \/ StopListenerCall
    \/ StopJoinClear
    \/ ListenerThread
    \/ ListenerKeyDown
    \/ ListenerKeyUp

SpecListener == Init /\ [][NextListener]_vars

\* The brightness controller on any backlight level, supported or not.
NextBrightness == GetBrightness \/ SetBrightness

InitController ==
    InitReminder /\ InitHotkeyFixed /\ InitBrightness /\ InitGammaFixed /\ InitWindowFixed

\* The gamma controller, supported or not.
NextGamma == CalculateColorGain \/ SetTemperature \/ ResetGamma

InitDisplay ==
    InitReminder /\ InitHotkeyFixed /\ InitBrightnessFixed /\ InitGamma /\ InitWindowFixed

SpecGamma == InitDisplay /\ [][NextGamma]_vars

\* Both controllers after a failed capability probe.
InitUnsupported ==
    /\ InitReminder /\ InitHotkeyFixed /\ InitWindowFixed
    /\ InitBrightness /\ ~supported /\ hw_level % TargetStride = 0
    /\ InitGamma /\ ~gamma_supported

NextUnsupported == GetBrightness \/ SetBrightness \/ SetTemperature \/ ResetGamma

SpecUnsupported == InitUnsupported /\ [][NextUnsupported]_vars

SpecBrightness == InitController /\ [][NextBrightness]_vars

\* Fair scheduling of the listener threads.
SpecListenerFair ==
    SpecListener /\ \A t \in Threads : WF_vars(ThreadStep(t))

\* ------------------------------------------------------------------------
\* Properties of the reminder scheduler
\* ------------------------------------------------------------------------
Range(seq) == {seq[i] : i \in 1 .. Len(seq)}
Resting01 == IF state = STATE_RESTING THEN 1 ELSE 0
FullCycleDone ==
    /\ runStarted = 1
    /\ runEnded = 1
    /\ state = STATE_WORKING
    /\ remaining_seconds = WorkSeconds

\* C1 (as stated): for W > 0 and R > 0, after start() followed by exactly
\* W + R ticks and nothing else, one rest-started and one rest-ended event
\* have been raised and the scheduler is Working with remaining = W.
C1_CycleInWPlusRTicks ==
    (WorkSeconds > 0 /\ RestSeconds > 0 /\ runTicks = WorkSeconds + RestSeconds)
        => FullCycleDone

\* C1 (amended): for W > 0 and R > 0, after start() followed by exactly
\* W + R + 2 ticks and nothing else, one rest-started and one rest-ended
\* event have been raised and the scheduler is Working with remaining = W;
\* after fewer ticks no rest-ended event has been raised yet.
C1_CycleInWPlusRPlus2Ticks ==
    (WorkSeconds > 0 /\ RestSeconds > 0 /\ runTicks >= 0) =>
        /\ runTicks = WorkSeconds + RestSeconds + 2 => FullCycleDone
        /\ runTicks < WorkSeconds + RestSeconds + 2 => runEnded = 0

C1_Witness ==
    /\ WorkSeconds > 0
    /\ RestSeconds > 0
    /\ runTicks = WorkSeconds + RestSeconds + 2
    /\ op.name = "tick"
    /\ state = STATE_WORKING

\* C2: a tick moves the scheduler from Working to Resting only when
\* remaining is 0 at that tick; that tick sets remaining to the configured
\* rest seconds and raises exactly one rest-started event carrying the rest
\* seconds; no other step raises rest-started.
C2_RestStartedOnlyAtZero ==
    [][ LET entersRest == state = STATE_WORKING /\ state' = STATE_RESTING
            raised == CountSig(rest_signals', "rest_period_started")
        IN  /\ entersRest =>
                  /\ op'.name = "tick"
                  /\ remaining_seconds = 0
                  /\ remaining_seconds' = rest_minutes' * SecondsPerMinute
                  /\ raised = 1
                  /\ SigStarted(rest_minutes' * SecondsPerMinute) \in Range(rest_signals')
            /\ (raised > 0 \/ nStarted' # nStarted) =>
                  /\ op'.name = "tick"
                  /\ entersRest
                  /\ remaining_seconds = 0
      ]_vars

C2_Witness ==
    /\ op.name = "tick"
    /\ op.from = STATE_WORKING
    /\ state = STATE_RESTING
    /\ rest_minutes > 0
    /\ remaining_seconds = RestSeconds
    /\ rest_signals = <<SigStarted(RestSeconds)>>

\* C3 (as stated): every tick that raises a rest-ended event ends with the
\* scheduler Working with remaining equal to the configured work seconds.
C3_RestEndReentersWorking ==
    (op.name = "tick" /\ SigEnded \in Range(rest_signals))
        => (state = STATE_WORKING /\ remaining_seconds = WorkSeconds)

\* C4 (as stated): whenever a start is rejected because the work duration is
\* <= 0 (start() called directly, by set_durations while active, or by the
\* end of a rest) the error status is reported and the scheduler is Idle
\* afterwards; with a work duration > 0, start() leaves the scheduler
\* Working with remaining equal to the work seconds.
C4_RejectedStartLeavesIdle ==
    [][ LET startAttempted ==
                \/ op'.name = "start"
                \/ op'.name = "set_durations" /\ timer_active
                \/ op'.name = "tick" /\ state = STATE_RESTING /\ remaining_seconds <= 0
        IN  /\ (startAttempted /\ work_hours' <= 0) =>
                  (StatusError \in Range(status_updated') /\ state' = STATE_IDLE)
            /\ (op'.name = "start" /\ work_hours' > 0) =>
                  (state' = STATE_WORKING
                   /\ remaining_seconds' = work_hours' * SecondsPerHour)
      ]_vars

\* C5: set_durations(W, R) with W > 0 called while Working or Resting
\* leaves the scheduler Working with remaining = W seconds, whatever the
\* countdown was; called while Idle it only stores the durations and the
\* scheduler stays Idle with remaining = 0.
C5_SetDurationsRestarts ==
    [][ (op'.name = "set_durations" /\ op'.wh > 0) =>
            /\ work_hours' = op'.wh
            /\ rest_minutes' = op'.rm
            /\ IF state \in {STATE_WORKING, STATE_RESTING}
               THEN /\ state' = STATE_WORKING
                    /\ remaining_seconds' = op'.wh * SecondsPerHour
               ELSE /\ state' = STATE_IDLE
                    /\ remaining_seconds' = 0
                    /\ UNCHANGED <<timer_active, rest_periods_today>>
      ]_vars

C5_Witness ==
    /\ op.name = "set_durations"
    /\ op.wh > 0
    /\ op.from = STATE_RESTING
    /\ state = STATE_WORKING
    /\ remaining_seconds = WorkSeconds

\* C6: stop() from any state leaves the scheduler Idle with remaining = 0
\* and the tick source stopped, and leaves the configured durations and the
\* rest counter unchanged.
C6_StopLeavesIdle ==
    [][ op'.name = "stop" =>
            /\ state' = STATE_IDLE
            /\ remaining_seconds' = 0
            /\ ~timer_active'
            /\ UNCHANGED <<work_hours, rest_minutes, rest_periods_today>>
      ]_vars

C6_Witness ==
    /\ op.name = "stop"
    /\ op.from = STATE_RESTING
    /\ rest_periods_today > 0
    /\ state = STATE_IDLE
    /\ ~timer_active

\* C7 (as stated): a set_durations call that supplies a zero or negative
\* work or rest duration changes neither the configured durations nor the
\* state nor remaining.
C7_InvalidDurationsRejected ==
    [][ (op'.name = "set_durations" /\ (op'.wh <= 0 \/ op'.rm <= 0)) =>
            UNCHANGED <<work_hours, rest_minutes, state, remaining_seconds>>
      ]_vars

\* C8 (as stated): remaining is >= 0 in every reachable state, and every
\* tick taken with remaining > 0 lowers remaining by exactly 1 without
\* changing the state.
C8_RemainingNonNegative ==
    [][ /\ remaining_seconds' >= 0
        /\ (op'.name = "tick" /\ remaining_seconds > 0) =>
              (remaining_seconds' = remaining_seconds - 1 /\ state' = state)
      ]_vars

\* C9: the rest counter changes only by +1, in the tick that enters
\* Resting; every other step leaves it unchanged; it always equals the
\* number of rest-started events raised so far.
C9_CounterCountsRestStarts ==
    [][ LET entersRest ==
                op'.name = "tick" /\ state = STATE_WORKING /\ state' = STATE_RESTING
        IN  /\ rest_periods_today' =
                  rest_periods_today + (IF entersRest THEN 1 ELSE 0)
            /\ get_rest_periods_today' = nStarted'
      ]_vars

C9_Witness ==
    /\ rest_periods_today = 1
    /\ nStarted = 1
    /\ op.name \in {"stop", "start", "set_durations"}
    /\ state # STATE_RESTING

\* C10 (as stated): the counter is at most the number of rest-ended events
\* raised, plus one if the scheduler is currently Resting.
C10_CounterCountsCompletedRests ==
    rest_periods_today <= nEnded + Resting01

\* C10 (amended): the counter counts started rests, also those cut short:
\* it is at most the number of rest-ended events raised plus the number of
\* rests cut short by stop(), start() or set_durations(), plus one if the
\* scheduler is currently Resting.
C10_CounterCountsCutRests ==
    rest_periods_today <= nEnded + nCut + Resting01

C10_Witness ==
    /\ rest_periods_today = 1
    /\ nEnded = 0
    /\ nCut = 1
    /\ state # STATE_RESTING

\* C11 (as stated): every step that changes (state, remaining) emits a
\* status string, and two emissions made in the same (state, remaining)
\* carry the same string, whichever operations produced them (here: the
\* emissions of two consecutive operations).
C11_StatusIsFunctionOfState ==
    [][ /\ (<<state, remaining_seconds>>' # <<state, remaining_seconds>>)
              => status_updated' # <<>>
        /\ (status_updated # <<>> /\ status_updated' # <<>>
              /\ <<state, remaining_seconds>>' = <<state, remaining_seconds>>)
              => Range(status_updated') = Range(status_updated)
      ]_vars

\* C11 (amended): every step that changes (state, remaining) emits a status
\* string; every emitted string is either the configuration-error string of
\* a rejected start, or the "disabled" string of stop() when the resulting
\* state is Idle, or, when the resulting state is Working or Resting, the
\* time display of the resulting (state, remaining) alone.
C11_StatusOfActiveStateIsProjection ==
    [][ /\ (<<state, remaining_seconds>>' # <<state, remaining_seconds>>)
              => status_updated' # <<>>
        /\ \A txt \in Range(status_updated') :
              \/ txt = StatusError
              \/ state' = STATE_IDLE /\ txt = StatusDisabled /\ op'.name = "stop"
              \/ /\ state' \in {STATE_WORKING, STATE_RESTING}
                 /\ txt.kind = state'
                 /\ txt.h * 3600 + txt.m * 60 + txt.s = remaining_seconds'
                 /\ txt.s \in 0 .. 59
                 /\ (state' = STATE_WORKING => txt.m \in 0 .. 59)
                 /\ (state' = STATE_RESTING => txt.h = 0)
      ]_vars

C11_Witness ==
    /\ op.name = "tick"
    /\ state = STATE_RESTING
    /\ remaining_seconds > 0
    /\ remaining_seconds < RestSeconds
    /\ status_updated = <<status_text(STATE_RESTING, remaining_seconds)>>

\* C26: the scheduler is in exactly one of Idle, Working, Resting; Idle
\* implies that no time remains; the QTimer is active exactly when the
\* state is not Idle.
C26_StateTimerAgree ==
    /\ state \in {STATE_IDLE, STATE_WORKING, STATE_RESTING}
    /\ state = STATE_IDLE => remaining_seconds = 0
    /\ timer_active <=> state # STATE_IDLE

C26_Witness ==
    /\ op.name = "stop"
    /\ op.from = STATE_RESTING
    /\ state = STATE_IDLE
    /\ ~timer_active
    /\ remaining_seconds = 0

\* C27: started with positive work hours and non-negative rest minutes and
\* left to its ticks, the scheduler alternates: every Working state is
\* followed by Resting and every Resting state by Working, for as many
\* rests as the model counts.
C27_WorkAndRestAlternate ==
    /\ (state = STATE_WORKING /\ nStarted < MaxRests) ~> (state = STATE_RESTING)
    /\ (state = STATE_RESTING /\ nEnded < MaxEnded) ~> (state = STATE_WORKING)

C27_Witness ==
    /\ state = STATE_WORKING
    /\ op.name = "tick"
    /\ op.from = STATE_RESTING
    /\ nStarted = 1
    /\ nEnded = 1

\* C28: rest_period_started and rest_period_ended alternate, beginning with
\* rest_period_started: never more than one rest is open, no rest ends
\* twice, and outside Resting every rest that started has ended.
C28_RestEventsAlternate ==
    /\ nStarted - nEnded \in {0, 1}
    /\ state # STATE_RESTING => nStarted = nEnded

\* ------------------------------------------------------------------------
\* Properties of the hotkey matcher
\* ------------------------------------------------------------------------
LastEvent == keylog[Len(keylog)]

RECURSIVE TotalMatches(_, _)
TotalMatches(hk, n) ==
    IF n = 0 THEN 0 ELSE matchlog[n][hk] + TotalMatches(hk, n - 1)

\* The first n key events are key-downs of n different keys of keys.
DistinctDowns(n, keys) ==
    /\ n <= Len(keylog)
    /\ \A i \in 1 .. n : keylog[i].ev = "down" /\ keylog[i].key \in keys
    /\ Cardinality({keylog[i].key : i \in 1 .. n}) = n

\* C12: on every key-down, after the key is added to the held set, exactly
\* one match event is emitted for each registered hotkey whose required key
\* set is a subset of the held set and none for any other; hotkeys that
\* share keys all fire.
C12_OneMatchPerSatisfiedChord ==
    (Len(keylog) > 0 /\ LastEvent.ev = "down") =>
        \A t \in Threads : th_pc[t] = "loop" =>
            /\ LastEvent.key \in pressed_keys[t]
            /\ \A hk \in AllHotkeys :
                  hotkey_pressed[hk] =
                      IF hk \in hotkey_map /\ parse_hotkey(hk) \subseteq pressed_keys[t]
                      THEN 1 ELSE 0

C12_Witness ==
    /\ Len(keylog) > 0
    /\ LastEvent.ev = "down"
    /\ hotkey_map = AllHotkeys
    /\ hotkey_pressed["<ctrl>+<alt>+1"] = 1
    /\ hotkey_pressed["<ctrl>+1"] = 1

\* C13: for a registered hotkey with a non-empty key set, pressing its keys
\* one after another in any order, with no release and no other key,
\* emits exactly one match event for it in total, on the key-down that
\* completes the set; releasing one of its keys emits nothing, and
\* pressing that key again emits exactly one further match event.
C13_OneMatchPerCompletion ==
    \A hk \in hotkey_map :
        LET keys == parse_hotkey(hk)
            n == Cardinality(keys)
        IN  keys # {} =>
              /\ (Len(keylog) < n /\ DistinctDowns(Len(keylog), keys))
                    => TotalMatches(hk, Len(keylog)) = 0
              /\ (Len(keylog) = n /\ DistinctDowns(n, keys))
                    => (TotalMatches(hk, n) = 1 /\ matchlog[n][hk] = 1)
              /\ (Len(keylog) = n + 1 /\ DistinctDowns(n, keys)
                    /\ keylog[n + 1].ev = "up" /\ keylog[n + 1].key \in keys)
                    => (matchlog[n + 1][hk] = 0 /\ TotalMatches(hk, n + 1) = 1)
              /\ (Len(keylog) = n + 2 /\ DistinctDowns(n, keys)
                    /\ keylog[n + 1].ev = "up" /\ keylog[n + 1].key \in keys
                    /\ keylog[n + 2] = [ev |-> "down", key |-> keylog[n + 1].key])
                    => (matchlog[n + 2][hk] = 1 /\ TotalMatches(hk, n + 2) = 2)

C13_Witness ==
    /\ "<ctrl>+<alt>+1" \in hotkey_map
    /\ Len(keylog) = 5
    /\ DistinctDowns(3, parse_hotkey("<ctrl>+<alt>+1"))
    /\ keylog[1].key = CharKey("1")
    /\ keylog[4] = [ev |-> "up", key |-> SpecialKey("alt")]
    /\ keylog[5] = [ev |-> "down", key |-> SpecialKey("alt")]
    /\ TotalMatches("<ctrl>+<alt>+1", 5) = 2

\* C14 (as stated): a hotkey string that is left with no parseable key is
\* unmatchable (it never emits a match event on any key-down), while the
\* other hotkeys are registered and match normally.
C14_EmptyChordNeverFires ==
    \A hk \in hotkey_map :
        IF parse_hotkey(hk) = {}
        THEN hotkey_pressed[hk] = 0
        ELSE \A t \in Threads :
                (th_pc[t] = "loop" /\ Len(keylog) > 0 /\ LastEvent.ev = "down") =>
                    hotkey_pressed[hk] =
                        IF parse_hotkey(hk) \subseteq pressed_keys[t] THEN 1 ELSE 0

\* C15 (as stated): once stop_listening has set the stop flag, the listener
\* thread it was stopping eventually terminates, and stop_listening
\* returns with both references cleared, whether or not the join timed out.
C15_StopTerminatesListener ==
    /\ \A t \in Threads : (t \in stop_requested) ~> (th_pc[t] = "done")
    /\ [][(caller_pc = "join" /\ caller_pc' = "idle")
            => (listener_thread' = 0 /\ listener_ref' = 0)]_vars


\* ------------------------------------------------------------------------
\* Properties of the brightness controller
\* ------------------------------------------------------------------------
\* The requested level brought into 0..100.
ClampedTarget ==
    IF br_op.level < MinLevel THEN MinLevel
    ELSE IF br_op.level > MaxLevel THEN MaxLevel ELSE br_op.level

SetOnSupported == br_op.name = "set" /\ supported

\* The last operation was a smooth transition: smooth requested, the current
\* level read, and different from the clamped target.
SmoothRun ==
    /\ SetOnSupported
    /\ br_op.smooth
    /\ br_op.read_ok
    /\ br_op.before # ClampedTarget

Between(a, x, b) == (a <= x /\ x <= b) \/ (b <= x /\ x <= a)

\* Ten times the exact k-th level of the transition, c + k * (t - c) / 10.
ExactTenfold(k) == Steps * br_op.before + k * (ClampedTarget - br_op.before)

\* C16: a smooth transition without apply failure issues exactly 11 apply
\* calls: 10 intermediate levels that move monotonically from the current
\* level toward the clamped target and lie between the two, then the exact
\* target; it returns True.
C16_SmoothIssuesElevenCalls ==
    (SmoothRun /\ br_op.fail_at = 0) =>
        /\ Len(br_calls) = Steps + 1
        /\ br_calls[Steps + 1] = ClampedTarget
        /\ \A k \in 1 .. Steps : Between(br_op.before, br_calls[k], ClampedTarget)
        /\ \A k \in 1 .. Steps - 1 :
               IF ClampedTarget > br_op.before
               THEN br_calls[k] <= br_calls[k + 1]
               ELSE br_calls[k] >= br_calls[k + 1]
        /\ br_set_ret = "True"

C16_Witness ==
    /\ SmoothRun
    /\ br_op.fail_at = 0
    /\ br_op.before - ClampedTarget = 60
    /\ br_calls[1] = br_op.before - 6
    /\ hw_level = ClampedTarget

\* C17: set_brightness on a supported controller issues exactly one apply
\* call, carrying the target clamped to 0..100, when smooth is not
\* requested, or the current level cannot be read, or the current level
\* already equals the clamped target.
C17_DirectIssuesOneCall ==
    (SetOnSupported
        /\ (~br_op.smooth \/ ~br_op.read_ok \/ br_op.before = ClampedTarget)) =>
        br_calls = <<ClampedTarget>>

C17_Witness ==
    /\ SetOnSupported
    /\ br_op.smooth
    /\ ~br_op.read_ok
    /\ br_op.level < MinLevel
    /\ br_calls = <<MinLevel>>

\* C18: when an apply call fails, set_brightness returns False and the
\* failing call is the last one it issues: the remaining steps and the final
\* apply of the target are not issued.
C18_FailureAbortsAndReturnsFalse ==
    (SetOnSupported /\ br_op.fail_at > 0) =>
        /\ br_set_ret = "False"
        /\ Len(br_calls) = br_op.fail_at

C18_Witness ==
    /\ SmoothRun
    /\ br_op.fail_at > 1
    /\ br_op.fail_at <= Steps
    /\ br_set_ret = "False"
    /\ Len(br_calls) < Steps + 1

\* C19: whenever set_brightness returns False, the backlight level equals
\* the level it had before the call.
C19_FailureLeavesLevelUntouched ==
    (br_op.name = "set" /\ br_set_ret = "False") => hw_level = br_op.before

\* C20: in a smooth transition the k-th intermediate level applied is
\* c + k * (t - c) / 10 rounded to the nearest integer.
C20_StepIsNearestInteger ==
    SmoothRun =>
        \A k \in 1 .. Steps :
            k <= Len(br_calls) =>
                /\ 2 * (Steps * br_calls[k] - ExactTenfold(k)) <= Steps
                /\ 2 * (ExactTenfold(k) - Steps * br_calls[k]) <= Steps

\* C20 (amended): in a smooth transition the k-th intermediate level applied
\* is c + k * (t - c) / 10 with its fraction dropped.
C20_StepIsTruncated ==
    SmoothRun =>
        \A k \in 1 .. Steps :
            k <= Len(br_calls) =>
                /\ Steps * br_calls[k] <= ExactTenfold(k)
                /\ ExactTenfold(k) < Steps * br_calls[k] + Steps

C20_Witness ==
    /\ SmoothRun
    /\ \E k \in 1 .. Steps :
           /\ k <= Len(br_calls)
           /\ 2 * (ExactTenfold(k) - Steps * br_calls[k]) > Steps


\* C29: at most one listener thread is alive at any time, so one key-down
\* never produces two match events for the same chord.
C29_AtMostOneListener ==
    /\ Cardinality({t \in Threads : is_alive(t)}) <= 1
    /\ \A hk \in hotkey_map : hotkey_pressed[hk] <= 1

\* ------------------------------------------------------------------------
\* Properties of the window
\* ------------------------------------------------------------------------
\* C30: after construction the checkbox and the scheduler agree: while the
\* reminder is enabled the scheduler is not Idle, while it is disabled the
\* scheduler is Idle.
C30_CheckboxMatchesScheduler ==
    reminder_enabled_checkbox <=> state # STATE_IDLE

\* ------------------------------------------------------------------------
\* Properties of the controllers without hardware support
\* ------------------------------------------------------------------------
\* C21: after a failed capability probe the flags stay false and every call
\* reports failure without touching the hardware: get_brightness returns
\* -1 and set_brightness False without a read or a write, set_temperature
\* and reset_gamma return False without sending a ramp.
C21_UnsupportedIsNoOp ==
    /\ ~supported
    /\ ~gamma_supported
    /\ br_reads = 0
    /\ br_calls = <<>>
    /\ hw_level = br_op.before
    /\ br_op.name = "get" => br_get_ret = Unavailable
    /\ br_op.name = "set" => br_set_ret = "False"
    /\ gm_sent = <<>>
    /\ display_ramp = SystemRamp
    /\ gm_op.name \in {"set_temperature", "reset_gamma"} => gm_ret = "False"

C21_Witness ==
    /\ ~supported
    /\ ~gamma_supported
    /\ br_op.name = "set"
    /\ br_op.read_ok
    /\ br_set_ret = "False"
    /\ gm_op.name = "set_temperature"
    /\ gm_op.apply_ok
    /\ gm_ret = "False"

\* ------------------------------------------------------------------------
\* Properties of the gamma ramp
\* ------------------------------------------------------------------------
Channels == {"red", "green", "blue"}

\* The last operation was set_temperature on a supported controller.
TemperatureSet == gm_op.name = "set_temperature" /\ gamma_supported

\* C22: for every kelvin in 1000..10000 the ramp of set_temperature has
\* all 256 values of every channel in 0..65535, non-decreasing in the index.
C22_RampInRangeAndMonotone ==
    (TemperatureSet /\ gm_op.kelvin >= MinKelvin /\ gm_op.kelvin <= MaxKelvin) =>
        /\ Len(gm_sent) = 1
        /\ \A c \in Channels :
               /\ DOMAIN gm_sent[1][c] = 0 .. MaxIndex
               /\ \A i \in 0 .. MaxIndex :
                      /\ gm_sent[1][c][i] >= 0
                      /\ gm_sent[1][c][i] <= WordMax
                      /\ i < MaxIndex => gm_sent[1][c][i] <= gm_sent[1][c][i + 1]

C22_Witness ==
    /\ TemperatureSet
    /\ gm_op.kelvin = 4500
    /\ gm_sent[1].red[MaxIndex] = WordMax
    /\ gm_sent[1].blue[MaxIndex] < gm_sent[1].green[MaxIndex]
    /\ gm_sent[1].green[MaxIndex] < WordMax

\* C23: at 6500 K the gains are (1.0, 1.0, 1.0), the colder formula starts
\* from the same value right above 6500 K, and the ramp of
\* set_temperature(6500) is the linear ramp of reset_gamma on all channels.
C23_NeutralRampIsLinear ==
    /\ (TemperatureSet /\ gm_op.kelvin = NeutralKelvin) =>
           /\ gm_gains = [r |-> GainUnit, g |-> GainUnit, b |-> GainUnit]
           /\ gm_sent = <<linear_ramp>>
    /\ (gm_op.name = "gain" /\ gm_op.kelvin = NeutralKelvin + 1) =>
           /\ (MaxKelvin - NeutralKelvin) * (GainUnit - gm_gains.r) = Tenths(2)
           /\ (MaxKelvin - NeutralKelvin) * (GainUnit - gm_gains.g) = Tenths(1)
           /\ gm_gains.b = GainUnit
    /\ (gm_op.name = "reset_gamma" /\ gamma_supported) =>
           /\ Len(gm_sent) = 1
           /\ \A c \in Channels : \A i \in 0 .. MaxIndex :
                  MaxIndex * gm_sent[1][c][i] = i * WordMax

C23_Witness ==
    /\ TemperatureSet
    /\ gm_op.kelvin = NeutralKelvin
    /\ gm_op.apply_ok
    /\ display_ramp = gm_sent[1]
    /\ display_ramp.green[128] = 32896

\* C24: a kelvin below 1000 gives the gains and the ramp of 1000, a kelvin
\* above 10000 those of 10000, and clamping a clamped kelvin changes nothing.
C24_KelvinIsClamped ==
    LET k == gm_op.kelvin
        edge == IF k < MinKelvin THEN MinKelvin ELSE MaxKelvin
    IN  /\ (gm_op.name \in {"gain", "set_temperature"}) =>
               clamp(clamp(k, MinKelvin, MaxKelvin), MinKelvin, MaxKelvin)
                   = clamp(k, MinKelvin, MaxKelvin)
        /\ (gm_op.name = "gain" /\ (k < MinKelvin \/ k > MaxKelvin)) =>
               gm_gains = calculate_color_gain(edge)
        /\ (TemperatureSet /\ (k < MinKelvin \/ k > MaxKelvin)) =>
               /\ gm_gains = calculate_color_gain(edge)
               /\ gm_sent = <<compute_ramp(calculate_color_gain(edge))>>

C24_Witness ==
    /\ TemperatureSet
    /\ gm_op.kelvin < MinKelvin
    /\ gm_gains.b = Tenths(6)
    /\ gm_sent[1].blue[MaxIndex] < gm_sent[1].green[MaxIndex]

\* C25: no gain exceeds 1.0 or falls below its floor: up to 6500 K red is
\* 1.0, green in [0.8, 1.0], blue in [0.6, 1.0]; above 6500 K red in
\* [0.8, 1.0], green in [0.9, 1.0], blue 1.0; green and blue do not decrease
\* with kelvin on the warm branch, red and green do not increase on the cold
\* branch.
C25_GainsWithinFloors ==
    LET k == gm_op.kelvin
        Calculated == gm_op.name = "gain" \/ TemperatureSet
    IN  /\ (Calculated /\ k <= NeutralKelvin) =>
               /\ gm_gains.r = GainUnit
               /\ Tenths(8) <= gm_gains.g /\ gm_gains.g <= GainUnit
               /\ Tenths(6) <= gm_gains.b /\ gm_gains.b <= GainUnit
               /\ \A k2 \in GainKelvins : (k <= k2 /\ k2 <= NeutralKelvin) =>
                      /\ gm_gains.g <= calculate_color_gain(k2).g
                      /\ gm_gains.b <= calculate_color_gain(k2).b
        /\ (Calculated /\ k > NeutralKelvin) =>
               /\ Tenths(8) <= gm_gains.r /\ gm_gains.r <= GainUnit
               /\ Tenths(9) <= gm_gains.g /\ gm_gains.g <= GainUnit
               /\ gm_gains.b = GainUnit
               /\ \A k2 \in GainKelvins : k <= k2 =>
                      /\ gm_gains.r >= calculate_color_gain(k2).r
                      /\ gm_gains.g >= calculate_color_gain(k2).g

C25_Witness ==
    /\ gm_op.name = "gain"
    /\ gm_op.kelvin > NeutralKelvin
    /\ gm_op.kelvin < MaxKelvin
    /\ gm_gains.r < gm_gains.g
    /\ gm_gains.g < GainUnit

====
